---- MODULE Spec2Model ----
(***************************************************************************)
(* Model of the governed training / scoring pipeline of HSBC_RealEstate:   *)
(*   app/hpml_train.py  hpml_train(data_path, model_path, meta_path,        *)
(*                                 target_name)                             *)
(*   app/evaluate.py    evaluate(data_path)                                 *)
(*                                                                         *)
(* The file system is a function from paths to file contents.  A table is  *)
(* its ordered column names and its row count; the cell values are kept    *)
(* only through what the library calls make of them: whether               *)
(* df[target].astype(float) converts, whether Pipeline.fit accepts the     *)
(* data, what Pipeline.predict returns.                                    *)
(***************************************************************************)
EXTENDS Integers, Sequences, FiniteSets, TLC

VARIABLES
    inp,     \* the arguments of the single run under study (SpecTrain only)
    files,   \* the file system: path -> content
    out,     \* what the last run did: its outcome and what it touched
    runs     \* number of training runs started so far

vars == <<inp, files, out, runs>>

(***************************************************************************)
(* Bounds of the model.                                                    *)
(***************************************************************************)
MaxCols == 3        \* longest training table header
MaxRuns == 2        \* training runs in one behaviour of Spec
MaxScoreRows == 2   \* most rows of a scoring table
PredScale == 3      \* predictions are the fractions k / PredScale

(***************************************************************************)
(* Strings.  Python tests substrings of lower-cased names, so a name is    *)
(* also known by its characters.                                           *)
(***************************************************************************)
Chars(name) ==
  CASE name = "square_footage" -> <<"s", "q", "u", "a", "r", "e", "_", "f", "o", "o", "t", "a", "g", "e">>
    [] name = "bedrooms" -> <<"b", "e", "d", "r", "o", "o", "m", "s">>
    [] name = "bathrooms" -> <<"b", "a", "t", "h", "r", "o", "o", "m", "s">>
    [] name = "year_built" -> <<"y", "e", "a", "r", "_", "b", "u", "i", "l", "t">>
    [] name = "lot_size" -> <<"l", "o", "t", "_", "s", "i", "z", "e">>
    [] name = "distance_to_city_center" -> <<"d", "i", "s", "t", "a", "n", "c", "e", "_", "t", "o", "_", "c", "i", "t", "y", "_", "c", "e", "n", "t", "e", "r">>
    [] name = "school_rating" -> <<"s", "c", "h", "o", "o", "l", "_", "r", "a", "t", "i", "n", "g">>
    [] name = "price" -> <<"p", "r", "i", "c", "e">>
    [] name = "sale_price" -> <<"s", "a", "l", "e", "_", "p", "r", "i", "c", "e">>
    [] name = "Listing_ID" -> <<"L", "i", "s", "t", "i", "n", "g", "_", "I", "D">>
    [] name = "id" -> <<"i", "d">>
    [] name = "index" -> <<"i", "n", "d", "e", "x">>
    [] name = "row" -> <<"r", "o", "w">>
    [] name = "listing" -> <<"l", "i", "s", "t", "i", "n", "g">>

\* str.lower() on one character (the upper-case letters the names use).
LowerChar(ch) ==
  CASE ch = "L" -> "l"
    [] ch = "I" -> "i"
    [] ch = "D" -> "d"
    [] OTHER -> ch

\* c.lower()
lower(c) == [k \in 1..Len(c) |-> LowerChar(c[k])]

\* p in c, for sequences of characters
Contains(p, c) ==
  \E k \in 1..(Len(c) - Len(p) + 1) : SubSeq(c, k, k + Len(p) - 1) = p

(***************************************************************************)
(* Program constants.                                                      *)
(***************************************************************************)
ALLOWED_FEATURES ==
  {"square_footage", "bedrooms", "bathrooms", "year_built",
   "lot_size", "distance_to_city_center", "school_rating"}

forbidden_patterns == {"id", "index", "row", "listing"}

MinRows == 10

None == "<None>"

\* Paths: the two the Scorer reads, its export, one more writable place, and
\* one in a directory that does not exist (every write to it raises).
ModelPath == "app/model.joblib"
MetaPath == "app/model_meta.json"
ExportPath == "data/processed/Prediction_Result_with_price.csv"
AltPath == "out/other_artifact"
BadPath == "no_such_dir/artifact"

Paths == {ModelPath, MetaPath, ExportPath, AltPath, BadPath}
DestPaths == {ModelPath, MetaPath, AltPath, BadPath}

Writable(p) == p # BadPath

NoFile == [kind |-> "none"]
EmptyFS == [p \in Paths |-> NoFile]

(***************************************************************************)
(* Inputs.                                                                 *)
(***************************************************************************)
ColumnNames == {"square_footage", "bedrooms", "price", "sale_price", "Listing_ID"}

\* Headers as pandas reads them: one column at least, no name twice.
HeadersOver(names, maxLen) ==
  UNION {{h \in [1..n -> names] : \A a, b \in 1..n : a # b => h[a] # h[b]}
         : n \in 1..maxLen}

Range(s) == {s[k] : k \in 1..Len(s)}

\* All the orders a Python set can be iterated in.
Orderings(S) ==
  {o \in [1..Cardinality(S) -> S] : \A a, b \in 1..Cardinality(S) : a # b => o[a] # o[b]}

TargetNames == {None, "", "bedrooms", "zip_code"}

\* What the cells do to the library calls: "clean" converts and fits,
\* "text_target" makes astype(float) raise on the resolved target column,
\* "nonfinite" converts but makes Pipeline.fit raise (NaN or inf).
DataKinds == {"clean", "text_target", "nonfinite"}

RowCounts == {0, MinRows - 1, MinRows, MinRows + 1}

TrainInputsOver(headers, rowCounts, tnames, kinds, dests) ==
  [cols : headers, rows : rowCounts, target_name : tnames, data : kinds,
   model_path : dests, meta_path : dests]

TrainInputs ==
  TrainInputsOver(HeadersOver(ColumnNames, MaxCols), RowCounts, TargetNames, DataKinds, DestPaths)

(***************************************************************************)
(* hpml_train, step by step.                                               *)
(***************************************************************************)
\* if df.shape[0] < 10: raise
TooSmallOffByOne(rows) == rows < MinRows - 1
TooSmall(rows) == rows < MinRows

\* 2. Auto-detect target column
ResolveTargetSalePriceFirst(cols, target_name) ==
  IF target_name # None /\ target_name # "" /\ target_name \in Range(cols) THEN target_name
  ELSE IF "sale_price" \in Range(cols) THEN "sale_price"
  ELSE IF "price" \in Range(cols) THEN "price"
  ELSE cols[Len(cols)]
ResolveTarget(cols, target_name) ==
  IF target_name # None /\ target_name # "" /\ target_name \in Range(cols) THEN target_name
  ELSE IF "price" \in Range(cols) THEN "price"
  ELSE IF "sale_price" \in Range(cols) THEN "sale_price"
  ELSE cols[Len(cols)]

\* y = df[target].astype(float)
ConvertsToFloat(data) == data # "text_target"

\* {col for col in ALLOWED_FEATURES if col in df.columns}; the list the code
\* builds is this set in the set's iteration order.
AvailableSetUnfiltered(cols) == Range(cols)
AvailableSet(cols) == {col \in ALLOWED_FEATURES : col \in Range(cols)}

\* if not available_features: raise
NoAllowedFeaturesUnchecked(available_features) == FALSE
NoAllowedFeatures(available_features) == available_features = <<>>

\* any(p in c.lower() for p in forbidden_patterns)
IsLeaked(c) == \E p \in forbidden_patterns : Contains(Chars(p), lower(Chars(c)))

\* X_raw.drop(columns=leaked): the columns kept, in order
RECURSIVE DropLeaked(_)
DropLeaked(columns) ==
  IF columns = <<>> THEN <<>>
  ELSE IF IsLeaked(Head(columns)) THEN DropLeaked(Tail(columns))
  ELSE <<Head(columns)>> \o DropLeaked(Tail(columns))

\* pipeline.fit(X_raw, y) returns (it raises on no column and on NaN / inf)
FitAccepts(X_raw, data) == X_raw # <<>> /\ data = "clean"

Bundle(run, features_used, target) ==
  [kind |-> "bundle", run |-> run, features_used |-> features_used, target |-> target]

Meta(run, features_used, target, n_samples) ==
  [kind |-> "meta", run |-> run, features_used |-> features_used, target |-> target,
   n_samples |-> n_samples]

\* One file written: the content replaces whatever the path held.
WriteFile(fs, path, content) == [fs EXCEPT ![path] = content]

TrainFailed(fs, status, target, fit_called, X_raw) ==
  [op |-> "train", status |-> status, files |-> fs, wrote |-> {},
   target |-> target, fit_called |-> fit_called, fit_columns |-> X_raw]

\* 10. Save model + metadata: joblib.dump, then open(meta_path, "w") / json.dump
SaveArtifacts(fs, i, run, X_raw, target) ==
  IF ~Writable(i.model_path)
  THEN TrainFailed(fs, "write_error", target, TRUE, X_raw)
  ELSE LET fs1 == WriteFile(fs, i.model_path, Bundle(run, X_raw, target))
       IN IF ~Writable(i.meta_path)
          THEN [op |-> "train", status |-> "write_error", files |-> fs1,
                wrote |-> {i.model_path}, target |-> target,
                fit_called |-> TRUE, fit_columns |-> X_raw]
          ELSE [op |-> "train", status |-> "ok",
                files |-> WriteFile(fs1, i.meta_path, Meta(run, X_raw, target, i.rows)),
                wrote |-> {i.model_path, i.meta_path}, target |-> target,
                fit_called |-> TRUE, fit_columns |-> X_raw]

\* The whole of hpml_train on file system fs with arguments i;
\* available_features is the list line 61 built.
hpml_train_outcome(fs, i, available_features, run) ==
  IF TooSmall(i.rows)
  THEN TrainFailed(fs, "insufficient_data", None, FALSE, <<>>)
  ELSE LET target == ResolveTarget(i.cols, i.target_name)
       IN IF ~ConvertsToFloat(i.data)
          THEN TrainFailed(fs, "target_not_numeric", target, FALSE, <<>>)
          ELSE IF NoAllowedFeatures(available_features)
          THEN TrainFailed(fs, "no_features", target, FALSE, <<>>)
          ELSE LET X_raw == DropLeaked(available_features)
               IN IF ~FitAccepts(X_raw, i.data)
                  THEN TrainFailed(fs, "fit_error", target, TRUE, X_raw)
                  ELSE SaveArtifacts(fs, i, run, X_raw, target)

NoOut == [op |-> "none"]
NoInput == [cols |-> <<>>]

TrainStep(i) ==
  /\ runs < MaxRuns
  /\ \E available_features \in Orderings(AvailableSet(i.cols)) :
        \E r \in {hpml_train_outcome(files, i, available_features, runs + 1)} :
           /\ files' = r.files
           /\ out' = [op |-> "train", status |-> r.status, wrote |-> r.wrote,
                      target |-> r.target, fit_called |-> r.fit_called,
                      fit_columns |-> r.fit_columns, run |-> runs + 1]
  /\ runs' = runs + 1

(***************************************************************************)
(* SpecTrain: one training run on every input of TrainInputs, from an      *)
(* empty file system.                                                      *)
(***************************************************************************)
InitTrain ==
  /\ inp \in TrainInputs
  /\ files = EmptyFS
  /\ out = NoOut
  /\ runs = 0

hpml_train_once ==
  /\ out.op = "none"
  /\ TrainStep(inp)
  /\ UNCHANGED inp

NextTrain == hpml_train_once

SpecTrain == InitTrain /\ [][NextTrain]_vars

(***************************************************************************)
(* evaluate, step by step.                                                 *)
(***************************************************************************)
\* The values Pipeline.predict can return: the fractions k / PredScale.
PredValues == {-(PredScale + 2), PredScale + 1}

\* Columns a scoring table may carry.
ScoreColumnNames == {"square_footage", "bedrooms", "Listing_ID"}

ScoreInputsOver(names, maxRows, predicts) ==
  UNION {[data_cols : SUBSET names, preds : [1..n -> PredValues], predict_ok : predicts]
         : n \in 0..maxRows}

ScoreInputs == ScoreInputsOver(ScoreColumnNames, MaxScoreRows, BOOLEAN)

\* joblib.load(model_path) returns a bundle
LoadsAsBundle(content) == content.kind = "bundle"

\* json.load(open(meta_path)) returns the metadata
LoadsAsMeta(content) == content.kind = "meta"

\* bundle.get("features_used") or bundle.get("features", [])
FeaturesOf(bundle) ==
  IF bundle.features_used # <<>> THEN bundle.features_used ELSE <<>>

\* df[features_used] raises KeyError on these
MissingColumnsFirstOnly(features_used, data_cols) ==
  IF features_used = <<>> THEN {} ELSE {features_used[1]} \ data_cols
MissingColumns(features_used, data_cols) ==
  {f \in Range(features_used) : f \notin data_cols}

\* preds.astype(int) on the fraction k / PredScale: numpy truncates toward zero
AsInt(k) == IF k >= 0 THEN k \div PredScale ELSE -((-k) \div PredScale)

\* result_df: id inserted first, the feature columns, predicted_price last
ExportHeader(features_used) == <<"id">> \o features_used \o <<"predicted_price">>

\* range(1, len(result_df) + 1) beside the rows of df[features_used], in order
ExportRows(preds) ==
  [k \in 1..Len(preds) |-> [id |-> k, input_row |-> k, predicted_price |-> AsInt(preds[k])]]

Export(features_used, preds) ==
  [kind |-> "export", header |-> ExportHeader(features_used), rows |-> ExportRows(preds)]

ScoreFailed(fs, status, predict_called) ==
  [status |-> status, files |-> fs, wrote |-> {}, predict_called |-> predict_called]

\* The whole of evaluate on file system fs with scoring table s.
evaluate_outcome(fs, s) ==
  IF ~LoadsAsBundle(fs[ModelPath])
  THEN ScoreFailed(fs, "artifact_error", FALSE)
  ELSE LET features_used == FeaturesOf(fs[ModelPath])
       IN IF MissingColumns(features_used, s.data_cols) # {}
          THEN ScoreFailed(fs, "missing_feature", FALSE)
          ELSE IF ~s.predict_ok
          THEN ScoreFailed(fs, "predict_error", TRUE)
          ELSE IF ~LoadsAsMeta(fs[MetaPath])
          THEN ScoreFailed(fs, "meta_error", TRUE)
          ELSE IF Len(s.preds) = 0
          THEN ScoreFailed(fs, "report_error", TRUE)
          ELSE [status |-> "ok",
                files |-> WriteFile(fs, ExportPath, Export(features_used, s.preds)),
                wrote |-> {ExportPath}, predict_called |-> TRUE]

\* The training run this scoring run follows at once, if it succeeded.
AfterTrain ==
  IF out.op = "train" /\ out.status = "ok"
  THEN [ok |-> TRUE, features |-> Range(out.fit_columns)]
  ELSE [ok |-> FALSE, features |-> {}]

EvaluateStep(s) ==
  \E r \in {evaluate_outcome(files, s)} :
     /\ files' = r.files
     /\ out' = [op |-> "evaluate", status |-> r.status, wrote |-> r.wrote,
                predict_called |-> r.predict_called, data_cols |-> s.data_cols,
                n |-> Len(s.preds),
                preds |-> IF r.predict_called /\ s.predict_ok THEN s.preds ELSE <<>>,
                after_train |-> AfterTrain]
     /\ UNCHANGED <<inp, runs>>

(***************************************************************************)
(* SpecScore: scoring runs against the artifacts one successful training   *)
(* run left at the Scorer's paths.                                         *)
(***************************************************************************)
TrainedAtFixedPaths ==
  UNION {{hpml_train_outcome(EmptyFS, i, o, 1).files : o \in Orderings(AvailableSet(i.cols))}
         : i \in {j \in TrainInputs : /\ j.model_path = ModelPath /\ j.meta_path = MetaPath
                                       /\ j.rows = MinRows /\ j.data = "clean"}}

InitScore ==
  /\ inp = NoInput
  /\ files \in {fs \in TrainedAtFixedPaths : fs[ModelPath] # NoFile}
  /\ out = NoOut
  /\ runs = 1

evaluate_scoring == \E s \in ScoreInputs : EvaluateStep(s)

NextScore == evaluate_scoring

SpecScore == InitScore /\ [][NextScore]_vars

(***************************************************************************)
(* Spec: training and scoring runs one after another, invoked serially by  *)
(* an operator, on one file system.                                        *)
(***************************************************************************)
RunColumnNames == {"square_footage", "bedrooms", "price"}

\* The operator gives each artifact its usual place, the spare place or the
\* place that cannot be written, and never one place to both.
RunTrainInputs ==
  {i \in TrainInputsOver(HeadersOver(RunColumnNames, MaxCols - 1), {MinRows - 1, MinRows},
                          {None}, {"clean", "nonfinite"}, DestPaths) :
     /\ i.model_path # MetaPath
     /\ i.meta_path # ModelPath
     /\ (i.model_path = i.meta_path => i.model_path = BadPath)}

RunScoreInputs == ScoreInputsOver(RunColumnNames \ {"price"}, 1, BOOLEAN)

Init ==
  /\ inp = NoInput
  /\ files = EmptyFS
  /\ out = NoOut
  /\ runs = 0

hpml_train ==
  /\ runs < MaxRuns
  /\ \E i \in RunTrainInputs : TrainStep(i)
  /\ UNCHANGED inp

evaluate == \E s \in RunScoreInputs : EvaluateStep(s)

Next == hpml_train \/ evaluate

Spec == Init /\ [][Next]_vars

(***************************************************************************)
(* Properties.                                                             *)
(***************************************************************************)
\* A column the governance rules let through: allow-listed, no forbidden substring.
Usable(c) == c \in ALLOWED_FEATURES /\ ~IsLeaked(c)

\* A feature list the governance rules allow for a table with header cols.
Governed(features_used, cols) ==
  \A f \in Range(features_used) : f \in ALLOWED_FEATURES /\ f \in Range(cols) /\ ~IsLeaked(f)

TrainDone == out.op = "train"

\* C1 as written: every table with at least MinRows rows and a usable column
\* trains successfully, and the bundle's feature list is governed.
C1_Original ==
  (TrainDone /\ inp.rows >= MinRows /\ \E c \in Range(inp.cols) : Usable(c))
    => /\ out.status = "ok"
       /\ \A p \in Paths : files[p].kind = "bundle" => Governed(files[p].features_used, inp.cols)

\* C1 amended: on a table with at least MinRows rows and a usable column,
\* hpml_train succeeds whenever the target column converts to float, fit
\* accepts the data and both destinations are writable; a bundle is then at
\* model_path unless meta_path is the same place; and every bundle a run
\* writes, successful or not, has a governed feature list.
C1_Governance ==
  TrainDone =>
    /\ ( ( /\ inp.rows >= MinRows
           /\ \E c \in Range(inp.cols) : Usable(c)
           /\ inp.data = "clean"
           /\ Writable(inp.model_path) /\ Writable(inp.meta_path) )
         => /\ out.status = "ok"
            /\ (inp.model_path # inp.meta_path =>
                  /\ files[inp.model_path].kind = "bundle"
                  /\ files[inp.model_path].features_used # <<>>) )
    /\ \A p \in Paths : files[p].kind = "bundle" => Governed(files[p].features_used, inp.cols)

C1_Witness ==
  /\ TrainDone /\ out.status = "ok"
  /\ "Listing_ID" \in Range(inp.cols) /\ "price" \in Range(inp.cols)
  /\ files[ModelPath].kind = "bundle"
  /\ files[ModelPath].features_used = <<"bedrooms">>

\* C2 as written: a training run that fails has written nothing.
C2_FailedRunWritesNothing ==
  (TrainDone /\ out.status # "ok") => out.wrote = {}

\* C3: a table with fewer than MinRows rows fails with insufficient-data,
\* whatever its columns, cells and target name; nothing is fitted or written.
C3_TooSmallFails ==
  (TrainDone /\ inp.rows < MinRows)
    => /\ out.status = "insufficient_data"
       /\ ~out.fit_called
       /\ out.wrote = {}
       /\ files = EmptyFS

C3_Witness ==
  /\ TrainDone /\ inp.rows < MinRows
  /\ inp.target_name = "zip_code" /\ inp.data = "text_target"
  /\ AvailableSet(inp.cols) = {}
  /\ out.status = "insufficient_data"

\* No column of the header survives both governance filters.
NothingUsable(cols) == \A c \in Range(cols) : ~Usable(c)

\* C4 as written: when nothing is usable the run fails with the
\* no-usable-features error, before fit and before any write.
C4_Original ==
  (TrainDone /\ NothingUsable(inp.cols))
    => /\ out.status = "no_features"
       /\ ~out.fit_called
       /\ out.wrote = {}

\* C4 amended: when nothing is usable the run fails before fit and before any
\* write; the error is no-usable-features once the row-count check and the
\* target's conversion to float have passed (they come first and raise their
\* own errors); and fit is never reached with zero feature columns.
C4_NoFeaturesFails ==
  TrainDone =>
    /\ NothingUsable(inp.cols) =>
         /\ out.status \in {"insufficient_data", "target_not_numeric", "no_features"}
         /\ (inp.rows >= MinRows /\ inp.data # "text_target" => out.status = "no_features")
         /\ ~out.fit_called
         /\ out.wrote = {}
         /\ files = EmptyFS
    /\ out.fit_called => out.fit_columns # <<>>

C4_Witness ==
  /\ TrainDone /\ NothingUsable(inp.cols)
  /\ inp.rows >= MinRows /\ inp.data = "clean"
  /\ out.status = "no_features"

\* C5: the target is a column of the table, chosen by first match: the
\* caller's name if it is a column, else "price", else "sale_price", else the
\* last column; an absent caller's name falls through and raises nothing.
C5_TargetResolution ==
  (TrainDone /\ out.status # "insufficient_data") =>
    LET named == inp.target_name \in Range(inp.cols)
        hasPrice == "price" \in Range(inp.cols)
        hasSale == "sale_price" \in Range(inp.cols)
    IN /\ out.target \in Range(inp.cols)
       /\ named => out.target = inp.target_name
       /\ (~named /\ hasPrice) => out.target = "price"
       /\ (~named /\ ~hasPrice /\ hasSale) => out.target = "sale_price"
       /\ (~named /\ ~hasPrice /\ ~hasSale) => out.target = inp.cols[Len(inp.cols)]

C5_Witness ==
  /\ TrainDone /\ out.status = "ok"
  /\ inp.target_name = "bedrooms"
  /\ {"bedrooms", "price", "sale_price"} \subseteq Range(inp.cols)
  /\ out.target = "bedrooms"

\* C10 as written: after a successful run the target is not one of the
\* features fitted and stored.
C10_TargetNotAFeature ==
  (TrainDone /\ out.status = "ok")
    => /\ out.target \notin Range(out.fit_columns)
       /\ \A p \in Paths : files[p].kind = "bundle"
             => files[p].target \notin Range(files[p].features_used)

ScoreDone == out.op = "evaluate"

\* C6: a scoring run on data that lacks a column of the persisted feature
\* list fails with the missing-feature error before predict is called, and
\* leaves every file, the export among them, exactly as it was.
C6_MissingFeatureFails ==
  [][ ( /\ out'.op = "evaluate"
        /\ files[ModelPath].kind = "bundle"
        /\ \E f \in Range(files[ModelPath].features_used) : f \notin out'.data_cols )
      => /\ out'.status = "missing_feature"
         /\ ~out'.predict_called
         /\ out'.wrote = {}
         /\ files' = files ]_vars

C6_Witness ==
  /\ ScoreDone
  /\ files[ModelPath].kind = "bundle"
  /\ files[ModelPath].features_used = <<"square_footage", "bedrooms">>
  /\ out.data_cols = {"square_footage", "Listing_ID"}
  /\ out.status = "missing_feature"
  /\ files[ExportPath].kind = "export"

\* C7 as written: a scoring run right after a successful training run, on
\* data with the training table's feature columns, never fails with the
\* missing-feature error, whatever destinations the training run was given.
C7_RoundTrip ==
  (ScoreDone /\ out.after_train.ok /\ out.after_train.features \subseteq out.data_cols)
    => out.status # "missing_feature"

\* The fraction k / PredScale rounded to the nearest integer (ties to even).
RoundNearest(k) ==
  LET q == (2 * k + PredScale) \div (2 * PredScale)
  IN IF (2 * k + PredScale) % (2 * PredScale) = 0 /\ q % 2 # 0 THEN q - 1 ELSE q

\* C8 as written: a successful scoring run on n rows exports n rows in input
\* order with identifiers 1..n, the header id, the feature list in order,
\* predicted_price, and each prediction rounded to an integer.
C8_ExportShape ==
  (ScoreDone /\ out.status = "ok") =>
    LET export == files[ExportPath]
    IN /\ export.kind = "export"
       /\ Len(export.rows) = out.n
       /\ export.header = <<"id">> \o files[ModelPath].features_used \o <<"predicted_price">>
       /\ \A k \in 1..out.n :
            /\ export.rows[k].id = k
            /\ export.rows[k].input_row = k
            /\ export.rows[k].predicted_price = RoundNearest(out.preds[k])

\* C9 as written: a bundle and a metadata file of the same run agree on the
\* feature list and the target, and the two files at the Scorer's paths come
\* from the same run.
C9_ArtifactsOfOneRun ==
  /\ \A p, q \in Paths :
       (files[p].kind = "bundle" /\ files[q].kind = "meta" /\ files[p].run = files[q].run)
         => /\ files[p].features_used = files[q].features_used
            /\ files[p].target = files[q].target
  /\ (files[ModelPath] # NoFile /\ files[MetaPath] # NoFile)
       => files[ModelPath].run = files[MetaPath].run

====
